---- MODULE Spec2Model ----
(***************************************************************************)
(* Model of torch_mimicry/nets/slimmable_cgan_pd/slimmable_cgan_pd_32.py:  *)
(* the slimmable cGAN-pd generator and discriminator for 32x32 images.     *)
(*                                                                         *)
(* A width multiplier is a dyadic fraction u/8 and is represented by the   *)
(* integer u (2 is 0.25, 8 is 1.0), so that every float expression of the  *)
(* source (products with a width, the division by 0.25) is exact and       *)
(* Python's int() is a truncating integer division.                        *)
(***************************************************************************)
EXTENDS Integers, Sequences, FiniteSets, TLC

VARIABLES
    width_mult_list,   \* FLAGS.width_mult_list
    width_mult,        \* FLAGS.width_mult, the active width
    gen,               \* the generator object (NoObject before construction)
    disc,              \* the discriminator object (NoObject before construction)
    g_out,             \* outcome of the latest generator forward call
    d_out              \* outcome of the latest discriminator forward call

vars == <<width_mult_list, width_mult, gen, disc, g_out, d_out>>

\* ---------------------------------------------------------------- bounds
MaxWidths == 4
MaxNgf == 4
MaxBottomWidth == 2
MaxBatch == 2
NShareSlack == 2

\* ----------------------------------------------------------- value domains
WidthUnits == 1..8

IsAscending(s) == \A i \in 1..(Len(s) - 1) : s[i] < s[i + 1]

WidthLists ==
    {s \in UNION {[1..n -> WidthUnits] : n \in 1..MaxWidths} : IsAscending(s)}

GridLists == {s \in WidthLists : \A i \in 1..Len(s) : s[i] % 2 = 0}

NShareValues == (-1 - NShareSlack)..(4 + NShareSlack)

NoObject == [status |-> "none"]
NoCall == [status |-> "none"]
NoInst == [list |-> "none"]
None == "None"
Labels == "labels"

\* ------------------------------------------------------------ pure helpers
\* Python int() of the non-negative rational num/den.
PyInt(num, den) == num \div den

\* Position (1-based) of a width in FLAGS.width_mult_list.
ActiveIndex(list, w) == CHOOSE i \in 1..Len(list) : list[i] = w

\* nn.ModuleList.__getitem__ with an integer index: negative indices count
\* from the end, anything outside -len..len-1 raises IndexError.
InRange(len, i) == -len <= i /\ i < len

AbsIndex(len, i) == IF i < 0 THEN i + len ELSE i

PyGet(seq, i) == seq[AbsIndex(Len(seq), i) + 1]

\* ---------------------------------------------------------------- generator
\* l1: out_features_list of the SlimmableLinear, one entry per width.
L1Features(ngf, bw, list) ==
    [i \in 1..Len(list) |-> PyInt((bw * bw) * ngf * list[i], 8)]

\* b5 / c5: channel counts of the final batch norm and convolution.
B5Features(ngf, list) == [i \in 1..Len(list) |-> PyInt(ngf * list[i], 8)]

NewGenerator(ngf, bw) ==
    /\ gen' = [status |-> "built", ngf |-> ngf, bottom_width |-> bw,
               l1 |-> L1Features(ngf, bw, width_mult_list),
               b5 |-> B5Features(ngf, width_mult_list),
               c5 |-> B5Features(ngf, width_mult_list)]
    /\ g_out' = NoCall
    /\ UNCHANGED <<width_mult_list, width_mult, disc, d_out>>

\* h.view(N, -1, bw, bw) of a tensor of shape (N, feat): the inferred
\* dimension, or -1 when the element count does not divide.
ViewChannels(feat, bw) ==
    IF feat % (bw * bw) = 0 THEN feat \div (bw * bw) ELSE -1

GForward(n) ==
    /\ gen.status = "built"
    /\ LET i == ActiveIndex(width_mult_list, width_mult)
           c == ViewChannels(gen.l1[i], gen.bottom_width)
           ok == c >= 0 /\ c = gen.b5[i] /\ c = gen.c5[i]
       IN g_out' = [status |-> IF ok THEN "ok" ELSE "RuntimeError",
                    n |-> n, width |-> width_mult, channels |-> c]
    /\ UNCHANGED <<width_mult_list, width_mult, gen, disc, d_out>>

\* ------------------------------------------------------------ discriminator
\* Mutant of AssertNShare: the lower limit of the assertion is 0.
AssertNShareFromZero(n_share) == 0 <= n_share /\ n_share <= 4

\* assert -1 <= self.n_share <= 4
AssertNShare(n_share) == -1 <= n_share /\ n_share <= 4

\* One instance per width of FLAGS.width_mult_list, appended in list order.
BuildList(name, list) ==
    [i \in 1..Len(list) |-> [list |-> name, made_for |-> list[i]]]

NewDiscriminator(n_share) ==
    /\ disc' = IF AssertNShare(n_share)
               THEN [status |-> "built", n_share |-> n_share,
                     block1s |-> BuildList("block1s", width_mult_list),
                     block2s |-> BuildList("block2s", width_mult_list),
                     block3s |-> BuildList("block3s", width_mult_list),
                     block4s |-> BuildList("block4s", width_mult_list),
                     l5s |-> BuildList("l5s", width_mult_list),
                     l_ys |-> BuildList("l_ys", width_mult_list)]
               ELSE [status |-> "AssertionError", n_share |-> n_share,
                     block1s |-> <<>>, block2s |-> <<>>, block3s |-> <<>>,
                     block4s |-> <<>>, l5s |-> <<>>, l_ys |-> <<>>]
    /\ d_out' = NoCall
    /\ UNCHANGED <<width_mult_list, width_mult, gen, g_out>>

\* Mutant of Idx: the offset of one is left out.
IdxNoOffset(w) == PyInt(w, 2)

\* idx = int(FLAGS.width_mult / 0.25) - 1
Idx(w) == PyInt(w, 2) - 1

\* The six module lists in the order forward indexes them.
ModuleLists(d) == <<d.block1s, d.block2s, d.block3s, d.block4s, d.l5s, d.l_ys>>

\* Mutant of Selectors: block 3 is tested against the threshold of block 4.
SelectorsShifted(n_share, idx) ==
    << IF n_share > 0 THEN -1 ELSE idx,
       IF n_share > 1 THEN -1 ELSE idx,
       IF n_share > 3 THEN -1 ELSE idx,
       IF n_share > 3 THEN -1 ELSE idx,
       IF n_share = -1 THEN -1 ELSE idx,
       idx >>

\* The index expression of each lookup of forward, in order.
Selectors(n_share, idx) ==
    << IF n_share > 0 THEN -1 ELSE idx,
       IF n_share > 1 THEN -1 ELSE idx,
       IF n_share > 2 THEN -1 ELSE idx,
       IF n_share > 3 THEN -1 ELSE idx,
       IF n_share = -1 THEN -1 ELSE idx,
       idx >>

\* The first lookup that raises IndexError (7 when none does).
FirstBad(lists, sels) ==
    LET bad == {k \in 1..6 : ~InRange(Len(lists[k]), sels[k])}
    IN IF bad = {} THEN 7 ELSE CHOOSE k \in bad : \A j \in bad : k <= j

\* The body of forward once idx is computed: the six lookups in order, then
\* the embedding of y and the (N, 1) logits.
DCall(n, y, idx) ==
    /\ disc.status = "built"
    /\ LET lists == ModuleLists(disc)
           sels == Selectors(disc.n_share, idx)
           stop == FirstBad(lists, sels)
           used == [k \in 1..6 |->
                       IF k < stop THEN PyGet(lists[k], sels[k]) ELSE NoInst]
           status == IF stop <= 6 THEN "IndexError"
                     ELSE IF y = None THEN "TypeError"
                     ELSE "ok"
       IN d_out' = [status |-> status, y |-> y, width |-> width_mult,
                    idx |-> idx, used |-> used,
                    shape |-> IF status = "ok" THEN <<n, 1>> ELSE <<>>]
    /\ UNCHANGED <<width_mult_list, width_mult, gen, disc, g_out>>

\* Mutant of DForward: idx is computed on the first call and reused afterwards.
DForwardCached(n, y) ==
    DCall(n, y, IF d_out.status = "none" THEN Idx(width_mult) ELSE d_out.idx)

DForward(n, y) == DCall(n, y, Idx(width_mult))

\* ------------------------------------------------------------ width switch
SetWidth(w) ==
    /\ w # width_mult
    /\ width_mult' = w
    /\ UNCHANGED <<width_mult_list, gen, disc, g_out, d_out>>

\* ----------------------------------------------------------- specifications
Widths(list) == {list[i] : i \in 1..Len(list)}

InitWith(lists) ==
    /\ width_mult_list \in lists
    /\ width_mult \in Widths(width_mult_list)
    /\ gen = NoObject
    /\ disc = NoObject
    /\ g_out = NoCall
    /\ d_out = NoCall

InitG == InitWith(WidthLists)

NextG ==
    \/ \E ngf \in 1..MaxNgf, bw \in 1..MaxBottomWidth : NewGenerator(ngf, bw)
    \/ \E n \in 1..MaxBatch : GForward(n)
    \/ \E w \in Widths(width_mult_list) : SetWidth(w)

SpecG == InitG /\ [][NextG]_vars

InitD == InitWith(WidthLists)

NextD ==
    \/ \E n_share \in NShareValues : NewDiscriminator(n_share)
    \/ \E n \in 1..MaxBatch, y \in {None, Labels} : DForward(n, y)
    \/ \E w \in Widths(width_mult_list) : SetWidth(w)

SpecD == InitD /\ [][NextD]_vars

Init == InitWith(GridLists)

Next ==
    \/ \E bw \in 1..MaxBottomWidth : NewGenerator(MaxNgf, bw)
    \/ GForward(1)
    \/ \E n_share \in NShareValues : NewDiscriminator(n_share)
    \/ \E y \in {None, Labels} : DForward(1, y)
    \/ \E w \in Widths(width_mult_list) : SetWidth(w)

Spec == Init /\ [][Next]_vars

\* ------------------------------------------------------------------ claims
GCalled == g_out.status # "none"
DCalled == d_out.status # "none"

\* C1: the generator runs at every configured width: at the width of a
\* forward call the view of l1's output yields exactly the int(ngf * w)
\* channels that b5 and c5 are built for, for every positive ngf and
\* bottom_width.
C1_GeneratorRunsAtEveryWidth ==
    GCalled =>
        /\ g_out.status = "ok"
        /\ g_out.channels =
               gen.b5[ActiveIndex(width_mult_list, g_out.width)]

\* width_mult_list is [0.25, 0.5, ..., 0.25 * n].
QuarterSteps(list) == \A i \in 1..Len(list) : list[i] = 2 * i

\* idx is a position of width_mult_list, the position of width w, and every
\* lookup by idx of call o hit the instance made for w.
IdxIsPosition(w) ==
    /\ 0 <= Idx(w)
    /\ Idx(w) < Len(width_mult_list)
    /\ width_mult_list[Idx(w) + 1] = w

LookupsHitWidth(o) ==
    /\ o.status # "IndexError"
    /\ 0 <= o.idx
    /\ o.idx < Len(width_mult_list)
    /\ width_mult_list[o.idx + 1] = o.width
    /\ o.used[6].made_for = o.width
    /\ \A k \in 1..4 : disc.n_share < k => o.used[k].made_for = o.width
    /\ disc.n_share # -1 => o.used[5].made_for = o.width

\* C2 (as stated): for every width of width_mult_list, idx is in
\* 0..len-1 and is the position of that width, and every lookup by idx of a
\* forward call is in range and hits the instance created for that width.
C2_IdxIsPositionOfWidth ==
    disc.status = "built" =>
        /\ \A w \in Widths(width_mult_list) : IdxIsPosition(w)
        /\ DCalled => LookupsHitWidth(d_out)

\* C2 (amended): the same, provided width_mult_list is
\* [0.25, 0.5, ..., 0.25 * n].
C2_IdxIsPositionOnQuarterSteps ==
    (disc.status = "built" /\ QuarterSteps(width_mult_list)) =>
        /\ \A w \in Widths(width_mult_list) : IdxIsPosition(w)
        /\ DCalled => LookupsHitWidth(d_out)

C2_Witness ==
    /\ QuarterSteps(width_mult_list)
    /\ Len(width_mult_list) = 4
    /\ DCalled
    /\ d_out.width = 6
    /\ d_out.idx = 2
    /\ d_out.status = "ok"

SixLists(d) == {d.block1s, d.block2s, d.block3s, d.block4s, d.l5s, d.l_ys}

\* C3: construction with n_share outside -1..4 fails with an assertion
\* error before any instance is built; with n_share in -1..4 it succeeds and
\* each of the six module lists holds exactly len(width_mult_list) instances.
C3_AssertThenBuild ==
    disc.status # "none" =>
        /\ disc.status = "AssertionError" <=> disc.n_share \notin -1..4
        /\ disc.status = "built" <=> disc.n_share \in -1..4
        /\ disc.status = "AssertionError" =>
               \A l \in SixLists(disc) : Len(l) = 0
        /\ disc.status = "built" =>
               \A l \in SixLists(disc) :
                   /\ Len(l) = Len(width_mult_list)
                   /\ Cardinality({l[i] : i \in 1..Len(l)}) =
                          Len(width_mult_list)

C3_Witness ==
    /\ disc.status = "AssertionError"
    /\ disc.n_share = 5
    /\ disc.block1s = <<>>
    /\ Len(width_mult_list) = 4

\* C4: a discriminator forward call with y left at None returns logits of
\* shape (N, 1).
C4_LogitsWithoutLabels ==
    (DCalled /\ d_out.y = None /\ d_out.status # "IndexError") =>
        /\ d_out.status = "ok"
        /\ Len(d_out.shape) = 2
        /\ d_out.shape[1] \in 1..MaxBatch
        /\ d_out.shape[2] = 1

GForwardStep == \E n \in 1..MaxBatch : GForward(n)

DForwardStep == \E n \in 1..MaxBatch, y \in {None, Labels} : DForward(n, y)

\* The instances lookup k of a call at width w may use: the last one of its
\* list or the one at the idx of w.
FromWidth(list, w) ==
    {list[i] : i \in {j \in 1..Len(list) :
                        j = Len(list) \/ j = AbsIndex(Len(list), Idx(w)) + 1}}

\* C5: a forward call leaves the layer instances, n_share and
\* FLAGS.width_mult unchanged, and the instances a discriminator call uses
\* come from the width active at that call and not from earlier calls: they
\* are those of the call before it whenever that one ran at the same width.
C5_ForwardOnlyReplays ==
    [][/\ GForwardStep =>
              UNCHANGED <<width_mult_list, width_mult, gen, disc, d_out>>
       /\ DForwardStep =>
              /\ UNCHANGED <<width_mult_list, width_mult, gen, disc, g_out>>
              /\ d_out'.width = width_mult
              /\ \A k \in 1..6 :
                     d_out'.used[k] \in
                         FromWidth(ModuleLists(disc)[k], width_mult)
                             \cup {NoInst}
              /\ (DCalled /\ d_out.width = width_mult) =>
                     d_out'.used = d_out.used]_vars

C5_Witness ==
    /\ GCalled
    /\ DCalled
    /\ d_out.status = "ok"
    /\ d_out.width # g_out.width
    /\ width_mult \notin {d_out.width, g_out.width}

\* Block k of call o used the last instance of its list.
Shared(o, k) ==
    /\ o.used[k] # NoInst
    /\ o.used[k] = PyGet(ModuleLists(disc)[k], -1)

SharedBlocks(o) == {k \in 1..4 : Shared(o, k)}

Max(a, b) == IF a >= b THEN a ELSE b

SharedIsPrefix(o) ==
    \A k \in SharedBlocks(o) : \A j \in 1..(k - 1) : j \in SharedBlocks(o)

\* C6 (as stated, for a completed call under the width list
\* [0.25, 0.5, 0.75, 1.0]): block k uses the last instance exactly when
\* n_share >= k and otherwise the instance at idx; the shared blocks form a
\* prefix and exactly max(n_share, 0) blocks are shared.
C6_SharedExactlyWhenNShare ==
    (DCalled /\ d_out.status = "ok" /\ width_mult_list = <<2, 4, 6, 8>>) =>
        /\ \A k \in 1..4 : Shared(d_out, k) <=> disc.n_share >= k
        /\ \A k \in 1..4 : ~Shared(d_out, k) =>
               d_out.used[k] = PyGet(ModuleLists(disc)[k], d_out.idx)
        /\ SharedIsPrefix(d_out)
        /\ Cardinality(SharedBlocks(d_out)) = Max(disc.n_share, 0)

\* idx designates the last position of the module lists.
IdxIsLast(o) ==
    AbsIndex(Len(width_mult_list), o.idx) = Len(width_mult_list) - 1

\* C6 (amended): block k uses the last instance if n_share >= k and
\* otherwise the instance at idx; the shared blocks form a prefix; and when
\* idx is not the last position, block k uses the last instance exactly when
\* n_share >= k and exactly max(n_share, 0) blocks are shared.
C6_SharedPrefix ==
    DCalled =>
        /\ \A k \in 1..4 : d_out.used[k] # NoInst =>
               /\ disc.n_share >= k =>
                      d_out.used[k] = PyGet(ModuleLists(disc)[k], -1)
               /\ disc.n_share < k =>
                      d_out.used[k] = PyGet(ModuleLists(disc)[k], d_out.idx)
        /\ d_out.status # "IndexError" =>
               \A k \in 1..4 : d_out.used[k] # NoInst
        /\ SharedIsPrefix(d_out)
        /\ ~IdxIsLast(d_out) =>
               /\ \A k \in 1..4 : Shared(d_out, k) <=> disc.n_share >= k
               /\ Cardinality(SharedBlocks(d_out)) = Max(disc.n_share, 0)

C6_Witness ==
    /\ DCalled
    /\ d_out.status = "ok"
    /\ disc.n_share = 2
    /\ ~IdxIsLast(d_out)
    /\ SharedBlocks(d_out) = {1, 2}

====
